---------------------------- MODULE Spec2Model ----------------------------
(***************************************************************************)
(* A model of the decision-oversight worker (src/worker/src/index.ts):     *)
(* the heuristic scorer scoreCase, the process-wide feedback store behind  *)
(* getStore, and the fetch handler with its five routes.                   *)
(*                                                                         *)
(* JavaScript values are modelled as follows.                              *)
(*   - an object is a function whose DOMAIN is the set of keys present;    *)
(*     an absent key is the property being undefined;                      *)
(*   - the free texts that scoreCase searches (summary, merchant,          *)
(*     user_context) are sequences of one-character strings, so that       *)
(*     toLowerCase, template concatenation and includes are computed and   *)
(*     not assumed; every other string is a TLA+ string;                   *)
(*   - confidence (0.85 / 0.65) is carried in hundredths (85 / 65);        *)
(*   - a request body of kind "object" holds a case whose properties have  *)
(*     the types the Case type declares; a body of kind "untyped" holds a  *)
(*     case whose properties are JSON values of any type, each tagged with *)
(*     its type, and the conversions JavaScript applies to them are        *)
(*     computed (ToString in the template literal, ToNumber in  >);        *)
(*   - Date and crypto.randomUUID are inputs of the handler.               *)
(***************************************************************************)
EXTENDS Integers, Sequences, FiniteSets, Bags, TLC

VARIABLES
    g,          \* globalThis[STORE_KEY]: NoStore, or the Store object
    pending,    \* handlers suspended at  await request.json()
    nStarted,   \* requests whose handler has been entered
    nDone,      \* requests whose handler has returned or thrown
    nAccepted,  \* POST /feedback requests answered {ok: true}
    last,       \* the request completed last and its response
    env,        \* the worker's Env bindings
    probe,      \* input of a function checked on its own
    out,        \* its result
    ui          \* the reviewer UI: React state and the fetches in flight

vars == <<g, pending, nStarted, nDone, nAccepted, last, env, probe, out, ui>>

serverVars == <<g, pending, nStarted, nDone, nAccepted, last>>

(***************************************************************************)
(* Objects                                                                 *)
(***************************************************************************)
Has(obj, k) == k \in DOMAIN obj

EmptyObj == [k \in {} |-> 0]

\* An object from optional fields: opt[k] is <<>> (absent) or <<value>>.
ObjOf(opt) == [k \in {f \in DOMAIN opt : Len(opt[f]) = 1} |-> opt[k][1]]

\* { ...base, [key]: value }
SpreadWith(base, key, value) ==
    [k \in DOMAIN base \cup {key} |-> IF k = key THEN value ELSE base[k]]

(***************************************************************************)
(* Text: String.prototype.toLowerCase, includes, template concatenation    *)
(***************************************************************************)
UpperChars ==
    <<"A","B","C","D","E","F","G","H","I","J","K","L","M",
      "N","O","P","Q","R","S","T","U","V","W","X","Y","Z",
      "U+00C0", "U+00C1", "U+00C2", "U+00C3", "U+00C4", "U+00C5", "U+00C6", "U+00C7",
      "U+00C8", "U+00C9", "U+00CA", "U+00CB", "U+00CC", "U+00CD", "U+00CE", "U+00CF",
      "U+00D0", "U+00D1", "U+00D2", "U+00D3", "U+00D4", "U+00D5", "U+00D6", "U+00D8",
      "U+00D9", "U+00DA", "U+00DB", "U+00DC", "U+00DD", "U+00DE">>

LowerChars ==
    <<"a","b","c","d","e","f","g","h","i","j","k","l","m",
      "n","o","p","q","r","s","t","u","v","w","x","y","z",
      "U+00E0", "U+00E1", "U+00E2", "U+00E3", "U+00E4", "U+00E5", "U+00E6", "U+00E7",
      "U+00E8", "U+00E9", "U+00EA", "U+00EB", "U+00EC", "U+00ED", "U+00EE", "U+00EF",
      "U+00F0", "U+00F1", "U+00F2", "U+00F3", "U+00F4", "U+00F5", "U+00F6", "U+00F8",
      "U+00F9", "U+00FA", "U+00FB", "U+00FC", "U+00FD", "U+00FE">>

Unchanged ==
    {" ", "!", "\"", "#", "$", "%", "&", "'", "(", ")", "*", "+",
     ",", "-", ".", "/", "0", "1", "2", "3", "4", "5", "6", "7",
     "8", "9", ":", ";", "<", "=", ">", "?", "@", "[", "\\", "]",
     "^", "_", "U+0060", "a", "b", "c", "d", "e", "f", "g", "h", "i",
     "j", "k", "l", "m", "n", "o", "p", "q", "r", "s", "t", "u",
     "v", "w", "x", "y", "z", "{", "|", "}", "~",
     "U+00A0", "U+00A1", "U+00A2", "U+00A3", "U+00A4", "U+00A5", "U+00A6", "U+00A7",
     "U+00A8", "U+00A9", "U+00AA", "U+00AB", "U+00AC", "U+00AD", "U+00AE", "U+00AF",
     "U+00B0", "U+00B1", "U+00B2", "U+00B3", "U+00B4", "U+00B5", "U+00B6", "U+00B7",
     "U+00B8", "U+00B9", "U+00BA", "U+00BB", "U+00BC", "U+00BD", "U+00BE", "U+00BF",
     "U+00D7", "U+00DF", "U+00E0", "U+00E1", "U+00E2", "U+00E3", "U+00E4", "U+00E5",
     "U+00E6", "U+00E7", "U+00E8", "U+00E9", "U+00EA", "U+00EB", "U+00EC", "U+00ED",
     "U+00EE", "U+00EF", "U+00F0", "U+00F1", "U+00F2", "U+00F3", "U+00F4", "U+00F5",
     "U+00F6", "U+00F7", "U+00F8", "U+00F9", "U+00FA", "U+00FB", "U+00FC", "U+00FD",
     "U+00FE", "U+00FF"}

\* A character of a text is a one-character string when it is printable
\* ASCII and the name "U+XXXX" of its code point otherwise (the grave accent,
\* U+0060, is named too).  The texts of
\* this model are written in ASCII, Latin-1 and the characters below:
\* LATIN CAPITAL LETTER I WITH DOT ABOVE (its lower case is two characters),
\* KELVIN SIGN and ANGSTROM SIGN (their lower case is a letter of another
\* block), and three characters without a lower case.
SpecialLower(c) ==
    CASE c = "U+0130" -> <<"i", "U+0307">>
      [] c = "U+212A" -> <<"k">>
      [] c = "U+212B" -> <<"U+00E5">>
      [] c \in {"U+0307", "U+2013", "U+20AC"} -> <<c>>

IndexIn(seq, c) == CHOOSE i \in DOMAIN seq : seq[i] = c

\* the lower case of one character: a sequence of characters
LowerChar(c) ==
    IF \E i \in DOMAIN UpperChars : UpperChars[i] = c
    THEN <<LowerChars[IndexIn(UpperChars, c)]>>
    ELSE IF c \in Unchanged THEN <<c>>
    ELSE SpecialLower(c)

ToLowerCaseIdentity(s) == s

RECURSIVE ToLowerCase(_)
ToLowerCase(s) ==
    IF s = <<>> THEN <<>> ELSE LowerChar(Head(s)) \o ToLowerCase(Tail(s))

\* text.includes(needle)
Includes(text, needle) ==
    \E i \in 0..(Len(text) - Len(needle)) :
        \A j \in 1..Len(needle) : text[i + j] = needle[j]

\* the decimal digits, as characters
Digits == <<"0", "1", "2", "3", "4", "5", "6", "7", "8", "9">>

DigitValue(c) == (CHOOSE i \in DOMAIN Digits : Digits[i] = c) - 1

AllDigits(r) == \A i \in DOMAIN r : \E d \in DOMAIN Digits : Digits[d] = r[i]

\* input.field ?? ""
OrEmpty(obj, k) == IF Has(obj, k) THEN obj[k] ELSE <<>>

\* `${input.summary} ${input.merchant ?? ""} ${input.user_context ?? ""}`
CaseText(input) ==
    input.summary \o <<" ">> \o OrEmpty(input, "merchant") \o <<" ">>
        \o OrEmpty(input, "user_context")

(***************************************************************************)
(* scoreCase                                                               *)
(***************************************************************************)
BaseScore == 20
WeightHighAmount == 25
WeightUrgency == 15
WeightHighRiskPayment == 25
WeightSocialEngineering == 15
AmountThreshold == 500
ScoreFloor == 0
ScoreCeiling == 100
RejectThreshold == 70
ReviewThreshold == 40
ConfidentHigh == 80
ConfidentLow == 20
ConfidenceExtreme == 85
ConfidenceMiddle == 65

UrgencyPhrases == {<<"u","r","g","e","n","t">>, <<"i","m","m","e","d","i","a","t","e","l","y">>}
HighRiskPhrases == {<<"g","i","f","t"," ","c","a","r","d">>, <<"w","i","r","e">>, <<"c","r","y","p","t","o">>}
SocialPhrases == {<<"n","o","t"," ","a"," ","s","c","a","m">>, <<"t","r","u","s","t"," ","m","e">>}
TriggerPhrases == UrgencyPhrases \cup HighRiskPhrases \cup SocialPhrases

Min(a, b) == IF a <= b THEN a ELSE b
Max(a, b) == IF a >= b THEN a ELSE b

\* input.amount && input.amount > 500
HighAmountInclusive(input) ==
    Has(input, "amount") /\ input.amount # 0 /\ input.amount >= AmountThreshold

HighAmount(input) ==
    Has(input, "amount") /\ input.amount # 0 /\ input.amount > AmountThreshold

UrgencyLanguage(text) ==
    Includes(text, <<"u","r","g","e","n","t">>) \/ Includes(text, <<"i","m","m","e","d","i","a","t","e","l","y">>)

HighRiskPayment(text) ==
    Includes(text, <<"g","i","f","t"," ","c","a","r","d">>) \/ Includes(text, <<"w","i","r","e">>)
        \/ Includes(text, <<"c","r","y","p","t","o">>)

SocialEngineering(text) ==
    Includes(text, <<"n","o","t"," ","a"," ","s","c","a","m">>) \/ Includes(text, <<"t","r","u","s","t"," ","m","e">>)

\* score = Math.min(100, Math.max(0, score))
Clamp(score) == Min(ScoreCeiling, Max(ScoreFloor, score))

VerdictOfStrict(score) ==
    IF score > RejectThreshold THEN "Reject"
    ELSE IF score > ReviewThreshold THEN "Review"
    ELSE "Approve"

VerdictOf(score) ==
    IF score >= RejectThreshold THEN "Reject"
    ELSE IF score >= ReviewThreshold THEN "Review"
    ELSE "Approve"

ConfidenceOfStrict(score) ==
    IF score > ConfidentHigh \/ score < ConfidentLow
    THEN ConfidenceExtreme ELSE ConfidenceMiddle

ConfidenceOf(score) ==
    IF score >= ConfidentHigh \/ score <= ConfidentLow
    THEN ConfidenceExtreme ELSE ConfidenceMiddle

\* The four rules, over the text scoreCase builds.
Rules(input) ==
    LET text == ToLowerCase(CaseText(input))
    IN  [high_amount |-> HighAmount(input),
         urgency_language |-> UrgencyLanguage(text),
         high_risk_payment |-> HighRiskPayment(text),
         social_engineering_phrase |-> SocialEngineering(text)]

\* score before it is clamped: 20, and each rule's  score += weight
RawScoreHeavyAmount(input) ==
    LET r == Rules(input)
    IN  BaseScore
          + (IF r.high_amount THEN WeightHighAmount + 5 ELSE 0)
          + (IF r.urgency_language THEN WeightUrgency ELSE 0)
          + (IF r.high_risk_payment THEN WeightHighRiskPayment ELSE 0)
          + (IF r.social_engineering_phrase THEN WeightSocialEngineering ELSE 0)

RawScore(input) ==
    LET r == Rules(input)
    IN  BaseScore
          + (IF r.high_amount THEN WeightHighAmount ELSE 0)
          + (IF r.urgency_language THEN WeightUrgency ELSE 0)
          + (IF r.high_risk_payment THEN WeightHighRiskPayment ELSE 0)
          + (IF r.social_engineering_phrase THEN WeightSocialEngineering ELSE 0)

\* signals: each rule's  signals.push(name), in the order of the rules
SignalsUrgencyLast(input) ==
    LET r == Rules(input)
    IN  (IF r.high_amount THEN <<"high_amount">> ELSE <<>>)
          \o (IF r.high_risk_payment THEN <<"high_risk_payment">> ELSE <<>>)
          \o (IF r.social_engineering_phrase
                THEN <<"social_engineering_phrase">> ELSE <<>>)
          \o (IF r.urgency_language THEN <<"urgency_language">> ELSE <<>>)

Signals(input) ==
    LET r == Rules(input)
    IN  (IF r.high_amount THEN <<"high_amount">> ELSE <<>>)
          \o (IF r.urgency_language THEN <<"urgency_language">> ELSE <<>>)
          \o (IF r.high_risk_payment THEN <<"high_risk_payment">> ELSE <<>>)
          \o (IF r.social_engineering_phrase
                THEN <<"social_engineering_phrase">> ELSE <<>>)

scoreCase(input) ==
    LET score == Clamp(RawScore(input))
    IN  [score |-> score,
         verdict |-> VerdictOf(score),
         confidence |-> ConfidenceOf(score),
         signals |-> Signals(input)]

(***************************************************************************)
(* The in-memory store                                                     *)
(***************************************************************************)
STORE_KEY == "__AI_DECISION_STORE__"

\* globalThis after getStore(): the Store is created on first access only.
getStoreAlwaysFresh(gl) == SpreadWith(gl, STORE_KEY, [feedback |-> <<>>])

getStore(gl) ==
    IF ~Has(gl, STORE_KEY)
    THEN SpreadWith(gl, STORE_KEY, [feedback |-> <<>>])
    ELSE gl

\* The records the process holds: none before the first access.
Feedback(gl) == IF Has(gl, STORE_KEY) THEN gl[STORE_KEY].feedback ELSE <<>>

\* store.feedback.push(record)
PushUnlessKnown(gl, record) ==
    IF \E i \in DOMAIN gl[STORE_KEY].feedback :
           gl[STORE_KEY].feedback[i].case_id = record.case_id
    THEN gl
    ELSE [gl EXCEPT ![STORE_KEY].feedback = Append(@, record)]

PushFront(gl, record) ==
    [gl EXCEPT ![STORE_KEY].feedback = <<record>> \o @]

Push(gl, record) ==
    [gl EXCEPT ![STORE_KEY].feedback = Append(@, record)]

(***************************************************************************)
(* Responses                                                               *)
(***************************************************************************)
\* json(data, origin, status)
Json(data, status) == [status |-> status, body |-> data]

\* new Response(null, { status: 204 })
NoContent == [status |-> 204, body |-> EmptyObj]

\* The handler's promise rejects: no Response is produced.
Thrown(what) == [status |-> 0, body |-> [thrown |-> what]]

(***************************************************************************)
(* Request bodies: what  await request.json()  yields                      *)
(***************************************************************************)
NoBody == [kind |-> "none"]
Unparseable == [kind |-> "unparseable"]
JsonNull == [kind |-> "null"]
\* a number, string or boolean: every property of it is undefined
JsonScalar == [kind |-> "scalar"]
JsonObject(obj) == [kind |-> "object", val |-> obj]

\* !obj.k for a string property: undefined and "" are falsy
Falsy(obj, k) == ~Has(obj, k) \/ obj[k] = ""

\* !obj.k for a text property (a character sequence)
FalsyText(obj, k) == ~Has(obj, k) \/ Len(obj[k]) = 0

(***************************************************************************)
(* JSON values of any type in the properties of a case.                    *)
(* A value is [json |-> "string", text |-> characters],                    *)
(* [json |-> "number", n |-> a natural number], [json |-> "true"],         *)
(* [json |-> "false"], [json |-> "null"], or [json |-> "object",           *)
(* keys |-> the object's own keys].  An own property of a parsed object is *)
(* never callable, and its prototype is Object.prototype.                  *)
(***************************************************************************)
\* !!obj.k : undefined, null, false, 0 and "" are falsy
Truthy(obj, k) ==
    /\ Has(obj, k)
    /\ CASE obj[k].json = "string" -> Len(obj[k].text) > 0
         [] obj[k].json = "number" -> obj[k].n # 0
         [] obj[k].json \in {"null", "false"} -> FALSE
         [] obj[k].json \in {"true", "object"} -> TRUE

\* Number.prototype.toString of a natural number
RECURSIVE NumberText(_)
NumberText(n) ==
    IF n < 10 THEN <<Digits[n + 1]>>
    ELSE NumberText(n \div 10) \o <<Digits[(n % 10) + 1]>>

\* StringToNumber of a numeral made of decimal digits ("" is 0)
RECURSIVE NumeralValue(_)
NumeralValue(t) ==
    IF t = <<>> THEN 0
    ELSE 10 * NumeralValue(SubSeq(t, 1, Len(t) - 1)) + DigitValue(t[Len(t)])

\* OrdinaryToPrimitive throws a TypeError: with an own (not callable)
\* toString, neither toString nor the inherited valueOf yields a primitive
Unconvertible(v) == v.json = "object" /\ "toString" \in v.keys

\* `${v}` : ToString of a value that converts
ToStringOf(v) ==
    CASE v.json = "string" -> v.text
      [] v.json = "number" -> NumberText(v.n)
      [] v.json = "true" -> <<"t", "r", "u", "e">>
      [] v.json = "false" -> <<"f", "a", "l", "s", "e">>
      [] v.json = "null" -> <<"n", "u", "l", "l">>
      [] v.json = "object" ->
            <<"[", "o", "b", "j", "e", "c", "t", " ",
              "O", "b", "j", "e", "c", "t", "]">>

\* ToNumber of a value that converts, for  v > 500 : <<n>>, or <<>> for NaN.
\* A text with a character that no numeric literal contains is NaN.
ToNumberOf(v) ==
    CASE v.json = "number" -> <<v.n>>
      [] v.json = "true" -> <<1>>
      [] v.json \in {"false", "null"} -> <<0>>
      [] v.json = "object" -> <<>>
      [] v.json = "string" /\ AllDigits(v.text) -> <<NumeralValue(v.text)>>
      [] v.json = "string" /\ (\E i \in DOMAIN v.text : v.text[i] \in
            {"g", "h", "j", "k", "l", "m", "p", "q", "r", "s", "u", "v",
             "w", "z", "$", ","}) -> <<>>

\* What scoreCase computes with, for a case of untyped properties:
\* the three texts as the template literal converts them (?? "" replaces
\* null and undefined only), and the number that  amount > 500  compares
\* (with NaN every comparison is false, as with no amount).
Coerce(c) ==
    LET texts == {k \in {"summary", "merchant", "user_context"} :
                    Has(c, k) /\ (k = "summary" \/ c[k].json # "null")}
        amounts == {k \in {"amount"} :
                    Truthy(c, k) /\ ~Unconvertible(c[k])
                        /\ ToNumberOf(c[k]) # <<>>}
        ids == {k \in {"id"} : Has(c, k) /\ c[k].json # "null"}
    IN  [thrown |-> \/ \E k \in texts : Unconvertible(c[k])
                    \/ Truthy(c, "amount") /\ Unconvertible(c.amount),
         input |-> [k \in texts \cup amounts \cup ids \cup {"type"} |->
                       CASE k \in texts ->
                                IF Unconvertible(c[k]) THEN <<>>
                                ELSE ToStringOf(c[k])
                         [] k \in amounts -> ToNumberOf(c[k])[1]
                         [] OTHER -> c[k]]]

(***************************************************************************)
(* POST /score, after  await request.json()                                *)
(***************************************************************************)
\* !body?.case?.summary || !body.case.type
ScoreMissingFields(body) ==
    \/ body.kind \in {"null", "scalar"}
    \/ ~Has(body.val, "case")
    \/ IF body.kind = "untyped"
       THEN ~Truthy(body.val["case"], "summary")
                \/ ~Truthy(body.val["case"], "type")
       ELSE FalsyText(body.val["case"], "summary")
                \/ Falsy(body.val["case"], "type")

\* env.NAME ?? fallback
EnvOr(e, name, fallback) == IF Has(e, name) THEN e[name] ELSE fallback

ScoreResponse(c, e, uuid, now) ==
    LET r == scoreCase(c)
    IN  [case_id |-> IF Has(c, "id") THEN c.id ELSE uuid,
         risk_score |-> r.score,
         verdict |-> r.verdict,
         confidence |-> r.confidence,
         rationale |-> "Heuristic risk evaluation for demo purposes.",
         signals |-> r.signals,
         model |-> EnvOr(e, "MODEL_NAME", "heuristic-mvp"),
         backend |-> EnvOr(e, "BACKEND", "local"),
         timestamp |-> now]

\* A handler that looks the case up among the reviews the process holds and
\* answers an overridden case with the reviewer's verdict.
ScoreHandlerLearns(gl, body, e, uuid, now) ==
    IF body.kind = "unparseable" THEN Thrown("SyntaxError")
    ELSE IF ScoreMissingFields(body)
    THEN Json([error |-> "Missing required fields"], 400)
    ELSE IF body.kind = "untyped"
    THEN LET c == Coerce(body.val["case"])
         IN  IF c.thrown THEN Thrown("TypeError")
             ELSE Json(ScoreResponse(c.input, e, uuid, now), 200)
    ELSE LET resp == ScoreResponse(body.val["case"], e, uuid, now)
             Overrides(r) ==
                 r.action = "Override" /\ r.case_id = resp.case_id
             reviews == SelectSeq(Feedback(gl), Overrides)
         IN  IF reviews = <<>> THEN Json(resp, 200)
             ELSE Json([resp EXCEPT !.verdict = reviews[1].final_verdict],
                       200)

\* The handler can reach globalThis (gl) and never reads it.
ScoreHandler(gl, body, e, uuid, now) ==
    IF body.kind = "unparseable" THEN Thrown("SyntaxError")
    ELSE IF ScoreMissingFields(body)
    THEN Json([error |-> "Missing required fields"], 400)
    ELSE IF body.kind = "untyped"
    THEN LET c == Coerce(body.val["case"])
         IN  IF c.thrown THEN Thrown("TypeError")
             ELSE Json(ScoreResponse(c.input, e, uuid, now), 200)
    ELSE Json(ScoreResponse(body.val["case"], e, uuid, now), 200)

(***************************************************************************)
(* POST /feedback, after  await request.json()                             *)
(***************************************************************************)
\* !body.case_id || !body.reviewer || !body.final_verdict
FeedbackInvalid(obj) ==
    Falsy(obj, "case_id") \/ Falsy(obj, "reviewer") \/ Falsy(obj, "final_verdict")

\* The properties of a parsed body that is not null.
Properties(body) == IF body.kind = "object" THEN body.val ELSE EmptyObj

\* The handler's result: the global object afterwards, and the response.
FeedbackHandlerPushFirst(gl, body, now) ==
    IF body.kind = "unparseable"
    THEN [g |-> gl, resp |-> Thrown("SyntaxError")]
    ELSE IF body.kind = "null"
    THEN [g |-> gl, resp |-> Thrown("TypeError")]
    ELSE LET pushed == Push(getStore(gl),
                             SpreadWith(Properties(body), "received_at", now))
         IN  IF FeedbackInvalid(Properties(body))
             THEN [g |-> pushed, resp |-> Json([error |-> "Invalid feedback payload"], 400)]
             ELSE [g |-> pushed, resp |-> Json([ok |-> TRUE], 200)]

FeedbackHandler(gl, body, now) ==
    IF body.kind = "unparseable"
    THEN [g |-> gl, resp |-> Thrown("SyntaxError")]
    ELSE IF body.kind = "null"
    THEN [g |-> gl, resp |-> Thrown("TypeError")]
    ELSE IF FeedbackInvalid(Properties(body))
    THEN [g |-> gl, resp |-> Json([error |-> "Invalid feedback payload"], 400)]
    ELSE [g |-> Push(getStore(gl), SpreadWith(Properties(body), "received_at", now)),
          resp |-> Json([ok |-> TRUE], 200)]

(***************************************************************************)
(* GET /analytics                                                          *)
(***************************************************************************)
\* store.feedback.filter((f) => f.action === "Override").length
Overrides(feedback) ==
    Cardinality({i \in DOMAIN feedback :
                    Has(feedback[i], "action") /\ feedback[i].action = "Override"})

\* f.reason_codes ?? []
ReasonCodes(f) == IF Has(f, "reason_codes") THEN f.reason_codes ELSE <<>>

RECURSIVE FlatReasons(_)
FlatReasons(feedback) ==
    IF feedback = <<>> THEN <<>>
    ELSE ReasonCodes(Head(feedback)) \o FlatReasons(Tail(feedback))

(* reasons: Record<string, number> = {} is an ordinary object.  Its own     *)
(* properties are kept here in creation order as [key, val]; val is         *)
(* [kind |-> "number", n |-> count] or, once a value inherited from         *)
(* Object.prototype was read, [kind |-> "text", n |-> k]: the text of that   *)
(* inherited value followed by k characters "1".                            *)
ReasonFalsePositive ==
    <<"f","a","l","s","e","_","p","o","s","i","t","i","v","e">>
ReasonEdgeCase ==
    <<"e","d","g","e","_","c","a","s","e">>
ReasonTen ==
    <<"1","0">>
ReasonNine ==
    <<"9">>
ReasonToString ==
    <<"t","o","S","t","r","i","n","g">>
ProtoName ==
    <<"_","_","p","r","o","t","o","_","_">>

\* the property names every ordinary object inherits from Object.prototype
InheritedNames ==
    {<<"c","o","n","s","t","r","u","c","t","o","r">>,
     <<"t","o","S","t","r","i","n","g">>,
     <<"t","o","L","o","c","a","l","e","S","t","r","i","n","g">>,
     <<"v","a","l","u","e","O","f">>,
     <<"h","a","s","O","w","n","P","r","o","p","e","r","t","y">>,
     <<"i","s","P","r","o","t","o","t","y","p","e","O","f">>,
     <<"p","r","o","p","e","r","t","y","I","s","E","n","u","m","e","r","a","b","l","e">>,
     <<"_","_","d","e","f","i","n","e","G","e","t","t","e","r","_","_">>,
     <<"_","_","d","e","f","i","n","e","S","e","t","t","e","r","_","_">>,
     <<"_","_","l","o","o","k","u","p","G","e","t","t","e","r","_","_">>,
     <<"_","_","l","o","o","k","u","p","S","e","t","t","e","r","_","_">>,
     ProtoName}

OwnIndex(props, r) == {i \in DOMAIN props : props[i].key = r}

\* (x ?? 0) + 1 for an own value x: a number is incremented, a text gets
\* another "1" appended
PlusOne(v) == [v EXCEPT !.n = @ + 1]

\* reasons[r] = (reasons[r] ?? 0) + 1.  The read goes through the prototype
\* chain: an inherited value is not nullish, so the sum is a text; the write
\* to __proto__ reaches the inherited setter, which ignores a text.
TallyOne(props, r) ==
    IF OwnIndex(props, r) # {}
    THEN [i \in DOMAIN props |->
              IF props[i].key = r
              THEN [key |-> r, val |-> PlusOne(props[i].val)]
              ELSE props[i]]
    ELSE IF r = ProtoName THEN props
    ELSE IF r \in InheritedNames
         THEN Append(props, [key |-> r, val |-> [kind |-> "text", n |-> 1]])
         ELSE Append(props, [key |-> r, val |-> [kind |-> "number", n |-> 1]])

\* the two for loops
RECURSIVE Tally(_, _)
Tally(props, flat) ==
    IF flat = <<>> THEN props
    ELSE Tally(TallyOne(props, Head(flat)), Tail(flat))

\* the order of numerals of one length
RECURSIVE NumeralLess(_, _)
NumeralLess(a, b) ==
    /\ a # <<>>
    /\ \/ DigitValue(Head(a)) < DigitValue(Head(b))
       \/ /\ Head(a) = Head(b)
          /\ NumeralLess(Tail(a), Tail(b))

\* the order of canonical numerals by value
IndexLess(a, b) ==
    \/ Len(a) < Len(b)
    \/ Len(a) = Len(b) /\ NumeralLess(a, b)

\* the largest array index, 2^32 - 2
LargestIndex ==
    <<"4","2","9","4","9","6","7","2","9","4">>

\* a property name that is an array index: the canonical numeral of an
\* integer in 0 .. 2^32 - 2
IsArrayIndex(r) ==
    /\ r # <<>>
    /\ AllDigits(r)
    /\ (Len(r) > 1 => Head(r) # "0")
    /\ ~IndexLess(LargestIndex, r)

RECURSIVE SortIndexKeys(_)
SortIndexKeys(props) ==
    IF props = <<>> THEN <<>>
    ELSE LET least == CHOOSE i \in DOMAIN props :
                          \A j \in DOMAIN props :
                              j # i => IndexLess(props[i].key, props[j].key)
             Rest(e) == e.key # props[least].key
         IN  <<props[least]>> \o SortIndexKeys(SelectSeq(props, Rest))

\* Object.entries(reasons): array-index keys first, in ascending numeric
\* order, then the other keys in creation order
Entries(props) ==
    LET IsIndex(e) == IsArrayIndex(e.key)
        NotIndex(e) == ~IsArrayIndex(e.key)
    IN  SortIndexKeys(SelectSeq(props, IsIndex)) \o SelectSeq(props, NotIndex)

IsNumber(v) == v.kind = "number"

\* a stable sort, larger counts first: what sort((a, b) => b[1] - a[1]) does
\* to entries whose values are all numbers
RECURSIVE SortByCountDesc(_)
SortByCountDesc(entries) ==
    IF entries = <<>> THEN <<>>
    ELSE LET top == CHOOSE c \in {entries[i].val.n : i \in DOMAIN entries} :
                        \A i \in DOMAIN entries : entries[i].val.n <= c
             IsTop(e) == e.val.n = top
             NotTop(e) == e.val.n # top
         IN  SelectSeq(entries, IsTop) \o SortByCountDesc(SelectSeq(entries, NotTop))

Orderings(s) ==
    {[i \in DOMAIN s |-> s[p[i]]] :
        p \in {q \in [DOMAIN s -> DOMAIN s] :
                  \A i, j \in DOMAIN s : q[i] = q[j] => i = j}}

\* b[1] - a[1] is NaN when either value is a text, and sort takes NaN as 0:
\* the comparator then calls a text equal to every number.  That is a
\* consistent order only if the numbers are all equal (the stable sort then
\* moves nothing); otherwise the sort order is implementation-defined.
ConsistentComparator(entries) ==
    \/ \A i \in DOMAIN entries : IsNumber(entries[i].val)
    \/ \A i, j \in DOMAIN entries :
           (IsNumber(entries[i].val) /\ IsNumber(entries[j].val)) =>
               entries[i].val.n = entries[j].val.n

SortOutcomes(entries) ==
    IF \A i \in DOMAIN entries : IsNumber(entries[i].val)
    THEN {SortByCountDesc(entries)}
    ELSE IF ConsistentComparator(entries) THEN {entries}
    ELSE Orderings(entries)

\* ([reason, count]) => ({ reason, count }); a count that is a text is kept
\* apart from a number as  text
ReasonEntry(e) ==
    IF IsNumber(e.val)
    THEN [reason |-> e.key, count |-> e.val.n]
    ELSE [reason |-> e.key, text |-> [inherited |-> e.key, ones |-> e.val.n]]

TopReasonsOutcomes(feedback) ==
    {[i \in DOMAIN s |-> ReasonEntry(s[i])] :
        s \in SortOutcomes(Entries(Tally(<<>>, FlatReasons(feedback))))}

(* overrides / total is a double: the 53-bit binary fraction nearest to    *)
(* the quotient.  Only its side of the quotient matters below.              *)
SignificandBits == 53

\* the remainder of the long division n / d (0 < n < d) in front of the
\* first 1 bit of the quotient
RECURSIVE LeadingRemainder(_, _)
LeadingRemainder(r, d) ==
    IF 2 * r >= d THEN r ELSE LeadingRemainder(2 * r, d)

\* the remainder after  bits  more bits of the quotient
RECURSIVE RemainderAfter(_, _, _)
RemainderAfter(r, d, bits) ==
    IF bits = 0 THEN r ELSE RemainderAfter((2 * r) % d, d, bits - 1)

\* where the double n / d lies with respect to the quotient n / d
\* (round to nearest, ties to even)
DoubleSide(n, d) ==
    LET beforeLast == RemainderAfter(LeadingRemainder(n, d), d, SignificandBits - 1)
        lastBit == IF 2 * beforeLast >= d THEN 1 ELSE 0
        rest == (2 * beforeLast) % d
    IN  IF rest = 0 THEN "exact"
        ELSE IF 2 * rest > d THEN "above"
        ELSE IF 2 * rest < d THEN "below"
        ELSE IF lastBit = 1 THEN "above" ELSE "below"

\* Number((overrides / total).toFixed(2)), in hundredths.  toFixed takes the
\* hundredth nearest to the double and the larger of two equally near.  The
\* double is nearer to the quotient than any boundary between hundredths
\* that the quotient is not on, so the quotient decides, except half-way
\* between two hundredths, where the side of the double decides: 1/8 is
\* exact and gives 0.13, the double 3/40 is below 0.075 and gives 0.07.
OverrideRate(overrides, total) ==
    IF total = 0 THEN 0
    ELSE LET hundredths == (100 * overrides) \div total
             twice == 2 * ((100 * overrides) % total)
         IN  IF twice < total THEN hundredths
             ELSE IF twice > total THEN hundredths + 1
             ELSE IF DoubleSide(overrides, total) = "below" THEN hundredths
             ELSE hundredths + 1

AnalyticsOutcomes(feedback) ==
    {[total_feedback |-> Len(feedback),
      override_rate |-> OverrideRate(Overrides(feedback), Len(feedback)),
      top_reasons |-> t] : t \in TopReasonsOutcomes(feedback)}

AnalyticsHandler(gl) ==
    [g |-> getStore(gl),
     resps |-> {Json(a, 200) : a \in AnalyticsOutcomes(getStore(gl)[STORE_KEY].feedback)}]

(***************************************************************************)
(* Routing: the synchronous head of fetch                                  *)
(***************************************************************************)
Route(method, path) ==
    IF method = "OPTIONS" THEN "preflight"
    ELSE IF method = "GET" /\ path = "/" THEN "health"
    ELSE IF method = "POST" /\ path = "/score" THEN "score"
    ELSE IF method = "POST" /\ path = "/feedback" THEN "feedback"
    ELSE IF method = "GET" /\ path = "/analytics" THEN "analytics"
    ELSE "notfound"

HealthBody ==
    [ok |-> TRUE,
     service |-> "AI Decision Oversight Demo",
     endpoints |-> <<"/score", "/feedback", "/analytics">>]

(***************************************************************************)
(* Inputs                                                                  *)
(***************************************************************************)
SummaryUrgentWire ==
    <<"U","r","g","e","n","t"," ","w","i","r","e"," ","t","r","a","n","s","f","e","r"," ","r","e","q","u","e","s","t","e","d"," ","b","y"," ","n","e","w"," ","v","e","n","d","o","r">>
SummaryLowDollar ==
    <<"L","o","w","-","d","o","l","l","a","r"," ","c","a","r","d"," ","p","u","r","c","h","a","s","e"," ","a","t"," ","k","n","o","w","n"," ","m","e","r","c","h","a","n","t">>
SummaryGiftCard ==
    <<"G","i","f","t"," ","c","a","r","d"," ","p","u","r","c","h","a","s","e"," ","r","e","q","u","e","s","t","e","d"," ","v","i","a"," ","e","m","a","i","l">>
SummaryNotAScam ==
    <<"T","h","i","s"," ","i","s"," ","N","O","T"," ","A"," ","S","C","A","M">>
MerchantAcme ==
    <<"A","c","m","e">>
ContextUrgent ==
    <<"c","u","s","t","o","m","e","r"," ","s","a","y","s"," ","i","t"," ","i","s"," ","u","r","g","e","n","t">>

\* The three cases of the review queue.
Case1001 ==
    [id |-> "CASE-1001", type |-> "transaction", summary |-> SummaryUrgentWire,
     amount |-> 1200]
Case1002 ==
    [id |-> "CASE-1002", type |-> "transaction", summary |-> SummaryLowDollar,
     amount |-> 12]
Case1003 ==
    [id |-> "CASE-1003", type |-> "transaction", summary |-> SummaryGiftCard,
     amount |-> 300]

\* Optional fields are <<>> (absent) or <<value>>.
CaseOptions ==
    [id : {<<>>, <<"CASE-1001">>},
     type : {<<"transaction">>},
     summary : {<<SummaryUrgentWire>>, <<SummaryLowDollar>>, <<SummaryGiftCard>>,
                <<SummaryNotAScam>>,
                \* "Pay IMMEDIATELY in Crypto"
                <<<<"P","a","y"," ","I","M","M","E","D","I","A","T","E","L","Y"," ","i","n"," ","C","r","y","p","t","o">>>>,
                \* "Refund as gift"
                <<<<"R","e","f","u","n","d"," ","a","s"," ","g","i","f","t">>>>,
                \* "Hardwired router order"
                <<<<"H","a","r","d","w","i","r","e","d"," ","r","o","u","t","e","r"," ","o","r","d","e","r">>>>,
                \* "Please trust"
                <<<<"P","l","e","a","s","e"," ","t","r","u","s","t">>>>,
                \* "İMMEDİATELY, s'il vous plaît": the lower case of each
                \* dotted capital I is "i" and a combining dot above
                <<<<"U+0130","M","M","E","D","U+0130","A","T","E","L","Y",","," ","s","'","i","l"," ","v","o","u","s"," ","p","l","a","U+00EE","t">>>>,
                \* "VIREMENT URGENT À L'ÉTRANGER, 20 K" with the Kelvin sign
                <<<<"V","I","R","E","M","E","N","T"," ","U","R","G","E","N","T"," ","U+00C0"," ","L","'","U+00C9","T","R","A","N","G","E","R",","," ","2","0"," ","U+212A">>>>},
     amount : {<<>>, <<0>>, <<12>>, <<300>>, <<500>>, <<501>>, <<1200>>},
     merchant : {<<>>, << <<>> >>, <<<<"c","a","r","d"," ","s","h","o","p">>>>, <<<<"M","e"," ","a","n","d"," ","C","o">>>>,
                 <<MerchantAcme>>},
     user_context : {<<>>, <<<<"T","r","u","s","t"," ","m","e"," ","o","n"," ","t","h","i","s">>>>, <<<<"r","e","g","u","l","a","r"," ","c","u","s","t","o","m","e","r">>>>, <<<<"c","a","r","d">>>>,
                     <<ContextUrgent>>}]

\* Cases that fail the required-field check.
BadCaseOptions ==
    [id : {<<"CASE-1001">>},
     type : {<<>>, <<"">>, <<"transaction">>},
     summary : {<<>>, << <<>> >>, <<SummaryUrgentWire>>},
     amount : {<<1200>>},
     merchant : {<<>>},
     user_context : {<<>>}]

UUIDs == {"uuid-a", "uuid-b"}

\* Bodies sent to POST /score on the running worker.
ScoreBodies ==
    {JsonObject([case |-> Case1001]),
     JsonObject([case |-> ObjOf([type |-> <<"transaction">>,
                                 summary |-> <<SummaryGiftCard>>])]),
     JsonNull, Unparseable}

FeedbackOptions ==
    [case_id : {<<>>, <<"">>, <<"CASE-1001">>},
     reviewer : {<<>>, <<"Analyst Demo">>},
     action : {<<>>, <<"Approve">>, <<"Override">>, <<"Escalate">>},
     final_verdict : {<<>>, <<"Review">>, <<"Maybe">>},
     reason_codes : {<<>>, << <<ReasonFalsePositive>> >>}]

\* How many fields of a feedback body depart from what the reviewer UI sends.
Departures(o) ==
    Cardinality({f \in {"case_id", "reviewer", "action", "final_verdict"} :
        CASE f = "case_id" -> o[f] # <<"CASE-1001">>
          [] f = "reviewer" -> o[f] # <<"Analyst Demo">>
          [] f = "action" -> o[f] \notin {<<"Approve">>, <<"Override">>}
          [] f = "final_verdict" -> o[f] # <<"Review">>})

FeedbackBodies ==
    {JsonObject(ObjOf(o)) :
        o \in {x \in FeedbackOptions :
                 /\ Departures(x) <= 1
                 /\ (x.reason_codes # <<>>) = (x.action = <<"Override">>)
                 /\ Departures(x) = 1 =>
                        /\ x.case_id \in {<<>>, <<"">>, <<"CASE-1001">>}
                        /\ x.action # <<"Override">>}}
        \cup {JsonNull, JsonScalar, Unparseable}

Methods == {"GET", "POST", "OPTIONS"}
Paths == {"/", "/score", "/feedback", "/analytics", "/admin"}

Request(method, path, body) == [method |-> method, path |-> path, body |-> body]

Suspends(method, path) == Route(method, path) \in {"score", "feedback"}

BodiesFor(method, path) ==
    IF Route(method, path) = "score" THEN ScoreBodies
    ELSE IF Route(method, path) = "feedback" THEN FeedbackBodies
    ELSE {NoBody}

(***************************************************************************)
(* Bounds                                                                  *)
(***************************************************************************)
MaxReq == 3
MaxInflight == 2
MaxRecords == 3
MaxRateRecords == 40
MaxMixedRecords == 5

(***************************************************************************)
(* The worker as a state machine                                           *)
(***************************************************************************)
NoOut == EmptyObj

\* new Date(): what the clock reads when a handler asks.  Two requests can
\* be answered within one millisecond and a machine's clock can be set back,
\* so a reading may equal, follow or precede an earlier one.
Now == {0, 1}

Idle ==
    /\ g = EmptyObj
    /\ pending = EmptyBag
    /\ nStarted = 0
    /\ nDone = 0
    /\ nAccepted = 0
    /\ last = EmptyObj

Init ==
    /\ Idle
    /\ env = EmptyObj
    /\ probe = EmptyObj
    /\ out = NoOut
    /\ ui = EmptyObj

\* A request whose handler returns without awaiting.
Answer(req, resp) ==
    /\ nStarted < MaxReq
    /\ nStarted' = nStarted + 1
    /\ nDone' = nDone + 1
    /\ last' = [route |-> Route(req.method, req.path), resp |-> resp]
    /\ UNCHANGED <<pending, nAccepted, env, probe, out, ui>>

Preflight ==
    \E m \in Methods, p \in Paths :
        /\ Route(m, p) = "preflight"
        /\ Answer(Request(m, p, NoBody), NoContent)
        /\ g' = g

Health ==
    \E m \in Methods, p \in Paths :
        /\ Route(m, p) = "health"
        /\ Answer(Request(m, p, NoBody), Json(HealthBody, 200))
        /\ g' = g

Analytics ==
    \E m \in Methods, p \in Paths :
        /\ Route(m, p) = "analytics"
        /\ \E resp \in AnalyticsHandler(g).resps :
               Answer(Request(m, p, NoBody), resp)
        /\ g' = AnalyticsHandler(g).g

NotFound ==
    \E m \in Methods, p \in Paths :
        /\ Route(m, p) = "notfound"
        /\ Answer(Request(m, p, NoBody), Json([error |-> "Not found"], 404))
        /\ g' = g

\* POST /score and POST /feedback run up to  await request.json().
Receive ==
    \E m \in Methods, p \in Paths :
        /\ Suspends(m, p)
        /\ nStarted < MaxReq
        /\ BagCardinality(pending) < MaxInflight
        /\ \E b \in BodiesFor(m, p) :
               pending' = pending (+) SetToBag({Request(m, p, b)})
        /\ nStarted' = nStarted + 1
        /\ UNCHANGED <<g, nDone, nAccepted, last, env, probe, out, ui>>

\* The body arrives and the rest of the handler runs to its return.
ResumeScore ==
    \E req \in BagToSet(pending), u \in UUIDs, now \in Now :
        /\ Route(req.method, req.path) = "score"
        /\ last' = [route |-> "score",
                    resp |-> ScoreHandler(g, req.body, env, u, now)]
        /\ pending' = pending (-) SetToBag({req})
        /\ nDone' = nDone + 1
        /\ UNCHANGED <<g, nStarted, nAccepted, env, probe, out, ui>>

ResumeFeedback ==
    \E req \in BagToSet(pending), now \in Now :
        LET r == FeedbackHandler(g, req.body, now)
        IN  /\ Route(req.method, req.path) = "feedback"
            /\ g' = r.g
            /\ last' = [route |-> "feedback", resp |-> r.resp]
            /\ nAccepted' = IF r.resp.status = 200 THEN nAccepted + 1 ELSE nAccepted
            /\ pending' = pending (-) SetToBag({req})
            /\ nDone' = nDone + 1
            /\ UNCHANGED <<nStarted, env, probe, out, ui>>

Next ==
    \/ Preflight
    \/ Health
    \/ Analytics
    \/ NotFound
    \/ Receive
    \/ ResumeScore
    \/ ResumeFeedback

Spec == Init /\ [][Next]_vars

(***************************************************************************)
(* POST /score on its own: one request, any case                           *)
(***************************************************************************)
InitScore ==
    /\ Idle
    /\ env \in {EmptyObj, [MODEL_NAME |-> "risk-v2", BACKEND |-> "edge"]}
    /\ probe \in {JsonObject([case |-> ObjOf(o)]) :
                        o \in CaseOptions \cup BadCaseOptions}
                    \cup {JsonObject(EmptyObj), JsonNull, JsonScalar,
                          Unparseable}
    /\ out = NoOut
    /\ ui = EmptyObj

\* POST /score with the body  probe  enters fetch and suspends at
\* await request.json()
EnterScore ==
    /\ nStarted = 0
    /\ pending' = pending (+) SetToBag({Request("POST", "/score", probe)})
    /\ nStarted' = nStarted + 1
    /\ UNCHANGED <<g, nDone, nAccepted, last, env, probe, out, ui>>

\* the body arrives and the handler runs to its return
ApplyScore ==
    \E req \in BagToSet(pending), u \in UUIDs, now \in Now :
        /\ out' = ScoreHandler(g, req.body, env, u, now)
        /\ last' = [route |-> "score", resp |-> out']
        /\ pending' = pending (-) SetToBag({req})
        /\ nDone' = nDone + 1
        /\ UNCHANGED <<g, nStarted, nAccepted, env, probe, ui>>

NextScore == EnterScore \/ ApplyScore

SpecScore == InitScore /\ [][NextScore]_vars

(***************************************************************************)
(* POST /score on its own: one request, a case of untyped properties       *)
(***************************************************************************)
InitUntyped ==
    /\ Idle
    /\ env = EmptyObj
    /\ probe \in {[kind |-> "untyped", val |-> [case |-> ObjOf(o)]] : o \in
          [id : {<<>>, <<[json |-> "null"]>>, <<[json |-> "number", n |-> 7]>>},
           type : {<<>>,
                   <<[json |-> "string", text |-> <<>>]>>,
                   <<[json |-> "string", text |-> <<"x">>]>>,
                   <<[json |-> "true"]>>},
           summary : {<<>>,
                      <<[json |-> "string", text |-> <<>>]>>,
                      <<[json |-> "string", text |-> SummaryUrgentWire]>>,
                      <<[json |-> "number", n |-> 0]>>,
                      <<[json |-> "number", n |-> 42]>>,
                      <<[json |-> "true"]>>,
                      <<[json |-> "false"]>>,
                      <<[json |-> "null"]>>,
                      <<[json |-> "object", keys |-> {}]>>,
                      <<[json |-> "object", keys |-> {"valueOf"}]>>,
                      <<[json |-> "object", keys |-> {"toString"}]>>},
           merchant : {<<>>,
                       <<[json |-> "null"]>>,
                       <<[json |-> "string", text |-> MerchantAcme]>>,
                       <<[json |-> "number", n |-> 7]>>,
                       <<[json |-> "object", keys |-> {"toString"}]>>},
           user_context : {<<>>, <<[json |-> "true"]>>},
           amount : {<<>>,
                     <<[json |-> "null"]>>,
                     <<[json |-> "number", n |-> 0]>>,
                     <<[json |-> "number", n |-> 1200]>>,
                     <<[json |-> "string", text |-> <<"1", "2">>]>>,
                     <<[json |-> "string", text |-> <<"1", "2", "0", "0">>]>>,
                     <<[json |-> "string", text |-> <<"h", "i", "g", "h">>]>>,
                     <<[json |-> "true"]>>,
                     <<[json |-> "object", keys |-> {}]>>,
                     <<[json |-> "object", keys |-> {"toString"}]>>}]}
                    \cup {[kind |-> "untyped", val |-> EmptyObj],
                          JsonNull, JsonScalar}
    /\ out = NoOut
    /\ ui = EmptyObj

SpecUntyped == InitUntyped /\ [][NextScore]_vars

(***************************************************************************)
(* The verdict and confidence rules on their own: any score                *)
(***************************************************************************)
InitDerive ==
    /\ Idle
    /\ env = EmptyObj
    /\ probe \in [score : ScoreFloor..ScoreCeiling]
    /\ out = NoOut
    /\ ui = EmptyObj

ApplyDerive ==
    /\ out = NoOut
    /\ out' = [verdict |-> VerdictOf(probe.score),
               confidence |-> ConfidenceOf(probe.score)]
    /\ UNCHANGED <<serverVars, env, probe, ui>>

SpecDerive == InitDerive /\ [][ApplyDerive]_vars

(***************************************************************************)
(* GET /analytics on its own: any store that accepted feedback has built    *)
(***************************************************************************)
ReasonCodeOptions ==
    {<<>>,
     << <<>> >>,
     << <<ReasonFalsePositive>> >>,
     << <<ReasonEdgeCase>> >>,
     << <<ReasonEdgeCase, ReasonFalsePositive>> >>,
     << <<ReasonFalsePositive, ReasonFalsePositive>> >>,
     << <<ReasonTen>> >>,
     << <<ReasonNine>> >>,
     << <<ReasonToString>> >>,
     << <<ProtoName>> >>}

\* what the reviewer UI posts, with any reason codes
ReviewBody(action, codes) ==
    JsonObject(ObjOf([case_id |-> <<"CASE-1001">>,
                      reviewer |-> <<"Analyst Demo">>,
                      action |-> action,
                      final_verdict |-> <<"Review">>,
                      reason_codes |-> codes]))

AnalyticsBodies ==
    {ReviewBody(IF codes \in {<<>>, << <<>> >>} THEN <<"Approve">> ELSE <<"Override">>,
                codes) : codes \in ReasonCodeOptions}

\* the global object after POST /feedback was answered for each body from
\* the i-th on, all within one reading of the clock; a refused body leaves
\* the object as it was
RECURSIVE StoreAfterFrom(_, _, _)
StoreAfterFrom(gl, bodies, i) ==
    IF i > Len(bodies) THEN gl
    ELSE LET now == CHOOSE t \in Now : TRUE
             next == FeedbackHandler(gl, bodies[i], now).g
         IN  IF Feedback(next) = Feedback(gl)
             THEN StoreAfterFrom(gl, bodies, i + 1)
             ELSE StoreAfterFrom(next, bodies, i + 1)

Posted(bodies) ==
    /\ g = StoreAfterFrom(EmptyObj, bodies, 1)
    /\ pending = EmptyBag
    /\ nStarted = Len(bodies)
    /\ nDone = Len(bodies)
    /\ nAccepted = Len(bodies)
    /\ last = IF bodies = <<>> THEN EmptyObj
              ELSE [route |-> "feedback", resp |-> Json([ok |-> TRUE], 200)]
    /\ env = EmptyObj
    /\ probe = bodies
    /\ out = NoOut
    /\ ui = EmptyObj

InitAnalytics ==
    \E n \in 0..MaxRecords : \E bodies \in [1..n -> AnalyticsBodies] : Posted(bodies)

ApplyAnalytics ==
    /\ out = NoOut
    /\ \E resp \in AnalyticsHandler(g).resps : out' = resp
    /\ g' = AnalyticsHandler(g).g
    /\ UNCHANGED <<pending, nStarted, nDone, nAccepted, last, env, probe, ui>>

SpecAnalytics == InitAnalytics /\ [][ApplyAnalytics]_vars

\* a  reviews with Override, then b with Approve, then c without an action,
\* or the other way round
RateBlocks(a, b, c, overridesFirst) ==
    [i \in 1..(a + b + c) |->
        IF overridesFirst
        THEN ReviewBody(IF i <= a THEN <<"Override">>
                        ELSE IF i <= a + b THEN <<"Approve">> ELSE <<>>, <<>>)
        ELSE ReviewBody(IF i <= c THEN <<>>
                        ELSE IF i <= c + b THEN <<"Approve">> ELSE <<"Override">>, <<>>)]

\* every store of up to MaxMixedRecords records, and the longer ones with
\* the records of one action next to each other
InitRate ==
    \/ \E n \in 0..MaxMixedRecords :
          \E bodies \in [1..n -> {ReviewBody(action, <<>>) : action \in {<<>>, <<"Approve">>, <<"Override">>}}] :
              Posted(bodies)
    \/ \E a, b, c \in 0..MaxRateRecords, first \in BOOLEAN :
           /\ a + b + c <= MaxRateRecords
           /\ Posted(RateBlocks(a, b, c, first))

SpecRate == InitRate /\ [][ApplyAnalytics]_vars

(***************************************************************************)
(* One case scored twice while the worker serves other requests            *)
(***************************************************************************)
InitRepeat ==
    /\ Idle
    /\ env = EmptyObj
    /\ probe \in {JsonObject([case |-> Case1001]),
                 JsonObject([case |-> ObjOf([type |-> <<"transaction">>,
                                             summary |-> <<SummaryGiftCard>>,
                                             amount |-> <<300>>])])}
    /\ out = NoOut
    /\ ui = EmptyObj

\* POST /score with the body  probe, or POST /feedback, enters fetch and
\* suspends at await request.json().  The feedback requests the worker
\* serves meanwhile: a review that is stored and one that is refused.
ReceiveRepeat ==
    /\ nStarted < MaxReq
    /\ BagCardinality(pending) < MaxInflight
    /\ \E req \in {Request("POST", "/score", probe)}
                    \cup {Request("POST", "/feedback", b) : b \in
                            {ReviewBody(<<"Override">>,
                                        << <<ReasonFalsePositive>> >>),
                             JsonObject([case_id |-> "CASE-1001",
                                         reviewer |-> "Analyst Demo"])}} :
           pending' = pending (+) SetToBag({req})
    /\ nStarted' = nStarted + 1
    /\ UNCHANGED <<g, nDone, nAccepted, last, env, probe, out, ui>>

\* The body of a POST /score arrives and the handler runs to its return; the
\* first answer and the latest one are kept.
ResumeProbe ==
    \E req \in BagToSet(pending), u \in UUIDs, now \in Now :
        LET resp == ScoreHandler(g, req.body, env, u, now)
        IN  /\ Route(req.method, req.path) = "score"
            /\ out' = IF Has(out, "first")
                      THEN [first |-> out.first, second |-> resp]
                      ELSE [first |-> resp]
            /\ last' = [route |-> "score", resp |-> resp]
            /\ pending' = pending (-) SetToBag({req})
            /\ nDone' = nDone + 1
            /\ UNCHANGED <<g, nStarted, nAccepted, env, probe, ui>>

NextRepeat ==
    \/ Preflight
    \/ Health
    \/ Analytics
    \/ NotFound
    \/ ReceiveRepeat
    \/ ResumeFeedback
    \/ ResumeProbe

SpecRepeat == InitRepeat /\ [][NextRepeat]_vars

(***************************************************************************)
(* The reviewer UI (App) in front of the worker                            *)
(***************************************************************************)
DEMO_QUEUE == <<Case1001, Case1002, Case1003>>

ReasonMissingContext ==
    <<"m","i","s","s","i","n","g","_","c","o","n","t","e","x","t">>

\* the reason checkboxes of the Human Review section
ReasonChoices == <<ReasonFalsePositive, ReasonMissingContext, ReasonEdgeCase>>

\* clicks and edits of the reviewer after the first render
MaxClicks == 4

\* null
NoResult == EmptyObj
NoError == ""

\* A fetch in flight.  Its stages: "sent"; "entered" (the worker's handler
\* is suspended at await request.json()); "answered" (the promise of fetch
\* is settled and the caller's continuation is due); "reading" (the caller
\* is suspended at await res.json()).
Fetch(kind, body) ==
    [kind |-> kind, body |-> body, stage |-> "sent", resp |-> EmptyObj]

PathOf(kind) ==
    CASE kind = "score" -> "/score"
      [] kind = "feedback" -> "/feedback"
      [] kind = "analytics" -> "/analytics"

\* res.ok
Ok(resp) == resp.status \in 200..299

\* the state after the first render and its effect, loadAnalytics()
Mounted ==
    [selected |-> DEMO_QUEUE[1],
     loading |-> FALSE,
     result |-> NoResult,
     error |-> NoError,
     action |-> "Approve",
     reasons |-> <<>>,
     notes |-> <<>>,
     submitted |-> FALSE,
     analytics |-> EmptyObj,
     queueOpen |-> FALSE,
     net |-> SetToBag({Fetch("analytics", NoBody)}),
     clicks |-> 0,     \* clicks and edits since the first render
     reviews |-> 0]    \* feedback requests sent since result was last set

InitUI ==
    /\ Idle
    /\ env = EmptyObj
    /\ probe = EmptyObj
    /\ out = NoOut
    /\ ui = Mounted

\* fetch(...) is called
Send(u, kind, body) ==
    [u EXCEPT !.net = @ (+) SetToBag({Fetch(kind, body)})]

\* the fetch f moves on to another stage
Moved(u, f, stage, resp) ==
    [u EXCEPT !.net = (@ (-) SetToBag({f}))
                        (+) SetToBag({[f EXCEPT !.stage = stage, !.resp = resp]})]

\* the caller of the fetch f has returned
Settled(u, f) == [u EXCEPT !.net = @ (-) SetToBag({f})]

ScoreRequestBody(c) ==
    JsonObject([case |-> [id |-> c.id, type |-> c.type, summary |-> c.summary,
                          amount |-> c.amount]])

FeedbackRequestBody(u) ==
    JsonObject([case_id |-> u.result.case_id,
                reviewer |-> "Analyst Demo",
                action |-> u.action,
                final_verdict |-> IF u.action = "Override" THEN "Review"
                                  ELSE u.result.verdict,
                reason_codes |-> u.reasons,
                notes |-> u.notes,
                original |-> [verdict |-> u.result.verdict,
                              risk_score |-> u.result.risk_score,
                              confidence |-> u.result.confidence,
                              model |-> u.result.model,
                              backend |-> u.result.backend]])

\* result && !submitted: the Human Review section is rendered
ReviewPanel(u) == u.result # NoResult /\ ~u.submitted

\* a case card is clicked, in the sidebar or in the drawer
ClickCase ==
    /\ ui.clicks < MaxClicks
    /\ \E i \in DOMAIN DEMO_QUEUE, inDrawer \in BOOLEAN :
           ui' = ([ui EXCEPT !.clicks = @ + 1, !.selected = DEMO_QUEUE[i],
                                    !.result = NoResult,
                                    !.submitted = FALSE,
                                    !.error = NoError,
                                    !.queueOpen = IF inDrawer THEN FALSE ELSE @])
    /\ UNCHANGED <<serverVars, env, probe, out>>

\* the Queue button, and the drawer's Close button or backdrop
SetQueueOpen ==
    /\ ui.clicks < MaxClicks
    /\ \E open \in BOOLEAN : ui' = ([ui EXCEPT !.clicks = @ + 1, !.queueOpen = open])
    /\ UNCHANGED <<serverVars, env, probe, out>>

\* "Score with AI" is clicked: scoreSelected up to  await fetch
ClickScore ==
    /\ ui.clicks < MaxClicks
    /\ ~ui.loading
    /\ ui' = Send(([ui EXCEPT !.clicks = @ + 1, !.loading = TRUE,
                                     !.result = NoResult,
                                     !.error = NoError,
                                     !.submitted = FALSE,
                                     !.action = "Approve",
                                     !.reasons = <<>>,
                                     !.notes = <<>>]),
                  "score", ScoreRequestBody(ui.selected))
    /\ UNCHANGED <<serverVars, env, probe, out>>

\* "Submit Review" is clicked: submitFeedback up to  await fetch
ClickSubmit ==
    /\ ui.clicks < MaxClicks
    /\ ReviewPanel(ui)
    /\ ui' = Send(([ui EXCEPT !.clicks = @ + 1, !.reviews = @ + 1]),
                  "feedback", FeedbackRequestBody(ui))
    /\ UNCHANGED <<serverVars, env, probe, out>>

\* the Approve / Override toggle
SetAction ==
    /\ ui.clicks < MaxClicks
    /\ ReviewPanel(ui)
    /\ \E a \in {"Approve", "Override"} : ui' = ([ui EXCEPT !.clicks = @ + 1, !.action = a])
    /\ UNCHANGED <<serverVars, env, probe, out>>

\* a reason checkbox is ticked or cleared
ToggleReason ==
    /\ ui.clicks < MaxClicks
    /\ ReviewPanel(ui)
    /\ ui.action = "Override"
    /\ \E i \in DOMAIN ReasonChoices :
           LET r == ReasonChoices[i]
               Other(x) == x # r
           IN  ui' = ([ui EXCEPT !.clicks = @ + 1, !.reasons = IF \E j \in DOMAIN @ : @[j] = r
                                                    THEN SelectSeq(@, Other)
                                                    ELSE Append(@, r)])
    /\ UNCHANGED <<serverVars, env, probe, out>>

\* the Notes textarea is edited
SetNotes ==
    /\ ui.clicks < MaxClicks
    /\ ReviewPanel(ui)
    /\ ui.action = "Override"
    /\ \E text \in {<<>>, <<"o","k">>} : ui' = ([ui EXCEPT !.clicks = @ + 1, !.notes = text])
    /\ UNCHANGED <<serverVars, env, probe, out>>

\* the Refresh button: loadAnalytics up to  await fetch
ClickRefresh ==
    /\ ui.clicks < MaxClicks
    /\ ui' = Send([ui EXCEPT !.clicks = @ + 1], "analytics", NoBody)
    /\ UNCHANGED <<serverVars, env, probe, out>>

\* A POST of the UI enters the worker's fetch and suspends at
\* await request.json().
WorkerReceives ==
    \E f \in BagToSet(ui.net) :
        /\ f.stage = "sent"
        /\ Suspends("POST", PathOf(f.kind))
        /\ f.kind # "analytics"
        /\ pending' = pending (+) SetToBag({Request("POST", PathOf(f.kind), f.body)})
        /\ nStarted' = nStarted + 1
        /\ ui' = Moved(ui, f, "entered", EmptyObj)
        /\ UNCHANGED <<g, nDone, nAccepted, last, env, probe, out>>

\* the rest of the POST /score handler
WorkerScores ==
    \E f \in BagToSet(ui.net), u \in UUIDs, now \in Now :
        LET resp == ScoreHandler(g, f.body, env, u, now)
        IN  /\ f.stage = "entered" /\ f.kind = "score"
            /\ pending' = pending (-) SetToBag({Request("POST", "/score", f.body)})
            /\ nDone' = nDone + 1
            /\ last' = [route |-> "score", resp |-> resp]
            /\ ui' = Moved(ui, f, "answered", resp)
            /\ UNCHANGED <<g, nStarted, nAccepted, env, probe, out>>

\* the rest of the POST /feedback handler
WorkerStores ==
    \E f \in BagToSet(ui.net), now \in Now :
        LET r == FeedbackHandler(g, f.body, now)
        IN  /\ f.stage = "entered" /\ f.kind = "feedback"
            /\ g' = r.g
            /\ nAccepted' = IF r.resp.status = 200 THEN nAccepted + 1 ELSE nAccepted
            /\ pending' = pending (-) SetToBag({Request("POST", "/feedback", f.body)})
            /\ nDone' = nDone + 1
            /\ last' = [route |-> "feedback", resp |-> r.resp]
            /\ ui' = Moved(ui, f, "answered", r.resp)
            /\ UNCHANGED <<nStarted, env, probe, out>>

\* GET /analytics returns without awaiting
WorkerReports ==
    \E f \in BagToSet(ui.net) :
        /\ f.stage = "sent" /\ f.kind = "analytics"
        /\ \E resp \in AnalyticsHandler(g).resps :
               /\ ui' = Moved(ui, f, "answered", resp)
               /\ last' = [route |-> "analytics", resp |-> resp]
        /\ g' = AnalyticsHandler(g).g
        /\ nStarted' = nStarted + 1
        /\ nDone' = nDone + 1
        /\ UNCHANGED <<pending, nAccepted, env, probe, out>>

\* the backend is not reached: fetch rejects
FetchFails ==
    \E f \in BagToSet(ui.net) :
        /\ f.stage = "sent"
        /\ ui' = Moved(ui, f, "answered", Thrown("TypeError"))
        /\ UNCHANGED <<serverVars, env, probe, out>>

\* scoreSelected after  await fetch: res.ok is tested
ScoreResponds ==
    /\ \E f \in BagToSet(ui.net) :
           /\ f.stage = "answered" /\ f.kind = "score"
           /\ ui' = IF Ok(f.resp)
                    THEN Moved(ui, f, "reading", f.resp)
                    ELSE Settled([ui EXCEPT !.error = "Failed to score case. Is the backend running?",
                                            !.loading = FALSE], f)
    /\ UNCHANGED <<serverVars, env, probe, out>>

\* scoreSelected after  await res.json(): setResult(data), setLoading(false)
ScoreArrives ==
    /\ \E f \in BagToSet(ui.net) :
           /\ f.stage = "reading" /\ f.kind = "score"
           /\ ui' = Settled([ui EXCEPT !.result = f.resp.body,
                                       !.reviews = 0,
                                       !.loading = FALSE], f)
    /\ UNCHANGED <<serverVars, env, probe, out>>

\* submitFeedback after  await fetch: setSubmitted(true); loadAnalytics()
FeedbackArrives ==
    /\ \E f \in BagToSet(ui.net) :
           /\ f.stage = "answered" /\ f.kind = "feedback"
           /\ ui' = IF Ok(f.resp)
                    THEN Send(Settled([ui EXCEPT !.submitted = TRUE], f),
                              "analytics", NoBody)
                    ELSE Settled(ui, f)
    /\ UNCHANGED <<serverVars, env, probe, out>>

\* loadAnalytics after  await fetch: res.ok is tested
AnalyticsResponds ==
    /\ \E f \in BagToSet(ui.net) :
           /\ f.stage = "answered" /\ f.kind = "analytics"
           /\ ui' = IF Ok(f.resp) THEN Moved(ui, f, "reading", f.resp)
                    ELSE Settled(ui, f)
    /\ UNCHANGED <<serverVars, env, probe, out>>

\* loadAnalytics after  await res.json(): setAnalytics(data)
AnalyticsArrives ==
    /\ \E f \in BagToSet(ui.net) :
           /\ f.stage = "reading" /\ f.kind = "analytics"
           /\ ui' = Settled([ui EXCEPT !.analytics = f.resp.body], f)
    /\ UNCHANGED <<serverVars, env, probe, out>>

NextUI ==
    \/ ClickCase
    \/ SetQueueOpen
    \/ ClickScore
    \/ ClickSubmit
    \/ SetAction
    \/ ToggleReason
    \/ SetNotes
    \/ ClickRefresh
    \/ WorkerReceives
    \/ WorkerScores
    \/ WorkerStores
    \/ WorkerReports
    \/ FetchFails
    \/ ScoreResponds
    \/ ScoreArrives
    \/ FeedbackArrives
    \/ AnalyticsResponds
    \/ AnalyticsArrives

SpecUI == InitUI /\ [][NextUI]_vars

(***************************************************************************)
(* Properties of the running worker (Spec)                                 *)
(***************************************************************************)
IsPrefix(s, t) ==
    /\ Len(s) <= Len(t)
    /\ \A i \in DOMAIN s : s[i] = t[i]

\* This step answers a request.
Answers == nDone' = nDone + 1

\* This step answers a POST /feedback with {ok: true}.
AcceptsFeedback ==
    /\ Answers
    /\ last'.route = "feedback"
    /\ last'.resp.status = 200

\* This step resumes the suspended request req.
Resumes(req) == Answers /\ pending' = pending (-) SetToBag({req})

IsOverride(obj) == Has(obj, "action") /\ obj.action = "Override"

\* C1: every accepted POST /feedback appends exactly one record: the
\* total_feedback that GET /analytics reports grows by exactly 1, and the
\* Override count grows by 1 if the submitted action is Override and by 0
\* otherwise, whatever is stored already (a record of the same case_id too).
C1_AcceptedFeedbackAppendsOne ==
    [][AcceptsFeedback =>
          \A req \in BagToSet(pending) :
              Resumes(req) =>
                  /\ \A before \in AnalyticsOutcomes(Feedback(g)),
                        after \in AnalyticsOutcomes(Feedback(g')) :
                         after.total_feedback = before.total_feedback + 1
                  /\ Overrides(Feedback(g'))
                        = Overrides(Feedback(g))
                            + (IF IsOverride(req.body.val) THEN 1 ELSE 0)]_vars

\* Two records of one case_id are stored, the second an Override.
C1_Witness ==
    /\ Len(Feedback(g)) = 2
    /\ Feedback(g)[1].case_id = Feedback(g)[2].case_id
    /\ IsOverride(Feedback(g)[2])
    /\ Overrides(Feedback(g)) = 1
    /\ last.route = "feedback"
    /\ last.resp.status = 200

\* C2: the store is append-only: it holds nothing before its first access,
\* its first access creates it empty (holding at most the record pushed by
\* that same request), and every step leaves the earlier contents as a
\* prefix of the later contents.
C2_StoreAppendOnly ==
    /\ ~Has(g, STORE_KEY)
    /\ [][/\ IsPrefix(Feedback(g), Feedback(g'))
          /\ Has(g, STORE_KEY) => Has(g', STORE_KEY)
          /\ (~Has(g, STORE_KEY) /\ Has(g', STORE_KEY)) =>
                Len(Feedback(g')) = (IF AcceptsFeedback THEN 1 ELSE 0)]_vars

\* Two records are stored and a third request, not an accepted feedback,
\* has been answered since.
C2_Witness ==
    /\ Len(Feedback(g)) = 2
    /\ nDone = 3
    /\ ~(last.route = "feedback" /\ last.resp.status = 200)

\* C3: the store's contents change only in a step that answers a
\* POST /feedback with 200; every other step leaves them as they are.
C3_OnlyAcceptedFeedbackWrites ==
    [][AcceptsFeedback \/ Feedback(g') = Feedback(g)]_vars

\* A POST /feedback was just answered 400 while a record is stored.
C3_Witness ==
    /\ Len(Feedback(g)) = 1
    /\ last.route = "feedback"
    /\ last.resp.status = 400
    /\ nDone = 2

ActionValues == {"Approve", "Override"}
VerdictValues == {"Approve", "Review", "Reject"}

\* The payload the claim calls acceptable.
WellFormedFeedback(obj) ==
    /\ ~Falsy(obj, "case_id")
    /\ ~Falsy(obj, "reviewer")
    /\ Has(obj, "action") /\ obj.action \in ActionValues
    /\ Has(obj, "final_verdict") /\ obj.final_verdict \in VerdictValues

\* C4: POST /feedback accepts an object payload only if case_id, reviewer
\* and final_verdict are present, action is Approve or Override and
\* final_verdict is Approve, Review or Reject; any other object payload is
\* answered 400 "Invalid feedback payload"; so every stored record has such
\* an action and final_verdict.
C4_FeedbackValidated ==
    [][/\ \A req \in BagToSet(pending) :
              (Resumes(req) /\ last'.route = "feedback" /\ req.body.kind = "object") =>
                  IF WellFormedFeedback(req.body.val)
                  THEN last'.resp.status = 200
                  ELSE /\ last'.resp.status = 400
                       /\ last'.resp.body.error = "Invalid feedback payload"
                       /\ Feedback(g') = Feedback(g)
       /\ \A i \in DOMAIN Feedback(g') :
              /\ Has(Feedback(g')[i], "action")
              /\ Feedback(g')[i].action \in ActionValues
              /\ Feedback(g')[i].final_verdict \in VerdictValues]_vars

\* C5: with handlers suspended at their await and resumed in any order, the
\* store holds exactly one record per accepted POST /feedback at every
\* moment (so also once all requests are answered), and a GET /analytics
\* reports as total_feedback the number of feedback requests accepted so far.
C5_CountsUnderInterleaving ==
    /\ Len(Feedback(g)) = nAccepted
    /\ (Has(last, "route") /\ last.route = "analytics") =>
           last.resp.body.total_feedback = nAccepted

\* GET /analytics reports the one record stored while the handler of
\* another acceptable POST /feedback is suspended at its await.
C5_Witness ==
    /\ nAccepted = 1
    /\ Has(last, "route") /\ last.route = "analytics"
    /\ last.resp.body.total_feedback = 1
    /\ \E req \in BagToSet(pending) :
           /\ req.path = "/feedback"
           /\ req.body.kind = "object"
           /\ ~FeedbackInvalid(req.body.val)

(***************************************************************************)
(* Properties of scoring (SpecScore, SpecDerive)                           *)
(***************************************************************************)
\* POST /score answered 200 for the case  probe.val["case"].
Scored == Has(out, "status") /\ out.status = 200

ProbeCase == probe.val["case"]

AllSignals ==
    <<"high_amount", "urgency_language", "high_risk_payment",
      "social_engineering_phrase">>

\* C6 as claimed: every 200 answer of POST /score carries a risk_score in
\* 0..100, and when all four rules fire the raw sum is 105 and the reported
\* score is 100.
C6_Original ==
    Scored =>
        /\ out.body.risk_score \in 0..100
        /\ out.body.signals = AllSignals =>
              /\ RawScore(ProbeCase) = 105
              /\ out.body.risk_score = 100

\* C6 amended: every 200 answer of POST /score carries a risk_score in
\* 0..100, and when all four rules fire the raw sum is 100 (the clamp leaves
\* it as it is) and the reported score is 100.
C6_RiskScoreInRange ==
    Scored =>
        /\ out.body.risk_score \in 0..100
        /\ out.body.signals = AllSignals =>
              /\ RawScore(ProbeCase) = 100
              /\ out.body.risk_score = 100

\* All four rules fired.
C6_Witness ==
    /\ Scored
    /\ out.body.signals = AllSignals
    /\ out.body.risk_score = 100

Indicator(b) == IF b THEN 1 ELSE 0

InSeq(x, s) == \E i \in DOMAIN s : s[i] = x

\* C7: risk_score = min(100, 20 + 25*[amount present and > 500]
\* + 15*[urgent | immediately] + 25*[gift card | wire | crypto]
\* + 15*[not a scam | trust me]) over the lower-cased text
\* "summary merchant user_context"; a signal is listed exactly when its
\* rule contributed; and amount 1200 with "Urgent wire transfer requested by
\* new vendor" gives 85, Reject, 0.85, [high_amount, urgency_language,
\* high_risk_payment].
C7_AdditiveHeuristic ==
    Scored =>
        LET c == ProbeCase
            text == ToLowerCase(c.summary \o <<" ">> \o OrEmpty(c, "merchant")
                                  \o <<" ">> \o OrEmpty(c, "user_context"))
            amt == Has(c, "amount") /\ c.amount > 500
            urg == \E ph \in UrgencyPhrases : Includes(text, ph)
            pay == \E ph \in HighRiskPhrases : Includes(text, ph)
            soc == \E ph \in SocialPhrases : Includes(text, ph)
            sum == 20 + 25 * Indicator(amt) + 15 * Indicator(urg)
                      + 25 * Indicator(pay) + 15 * Indicator(soc)
        IN  /\ out.body.risk_score = (IF sum < 100 THEN sum ELSE 100)
            /\ InSeq("high_amount", out.body.signals) <=> amt
            /\ InSeq("urgency_language", out.body.signals) <=> urg
            /\ InSeq("high_risk_payment", out.body.signals) <=> pay
            /\ InSeq("social_engineering_phrase", out.body.signals) <=> soc
            /\ ( /\ c.summary = SummaryUrgentWire
                 /\ Has(c, "amount") /\ c.amount = 1200
                 /\ ~Has(c, "merchant") /\ ~Has(c, "user_context") ) =>
                   /\ out.body.risk_score = 85
                   /\ out.body.verdict = "Reject"
                   /\ out.body.confidence = 85
                   /\ out.body.signals
                        = <<"high_amount", "urgency_language", "high_risk_payment">>

\* The worked example has been scored.
C7_Witness ==
    /\ Scored
    /\ ProbeCase.summary = SummaryUrgentWire
    /\ Has(ProbeCase, "amount") /\ ProbeCase.amount = 1200
    /\ ~Has(ProbeCase, "merchant") /\ ~Has(ProbeCase, "user_context")
    /\ out.body.risk_score = 85

Derived == Has(out, "verdict")

\* C8: for every score in 0..100 the verdict is Reject from 70 up, Review
\* from 40 to 69 and Approve below 40; 39 -> Approve, 40 -> Review,
\* 69 -> Review, 70 -> Reject.
C8_VerdictThresholds ==
    Derived =>
        /\ out.verdict = "Reject" <=> probe.score >= 70
        /\ out.verdict = "Review" <=> (40 <= probe.score /\ probe.score < 70)
        /\ out.verdict = "Approve" <=> probe.score < 40
        /\ probe.score = 39 => out.verdict = "Approve"
        /\ probe.score = 40 => out.verdict = "Review"
        /\ probe.score = 69 => out.verdict = "Review"
        /\ probe.score = 70 => out.verdict = "Reject"

\* The verdict of the boundary score 70 has been derived.
C8_Witness == Derived /\ probe.score = 70 /\ out.verdict = "Reject"

\* C9: for every score in 0..100 the confidence is 0.85 when the score is
\* at least 80 or at most 20 and 0.65 otherwise; 20 -> 0.85, 21 -> 0.65,
\* 79 -> 0.65, 80 -> 0.85 (in hundredths).
C9_ConfidenceBands ==
    Derived =>
        /\ out.confidence \in {65, 85}
        /\ out.confidence = 85 <=> (probe.score >= 80 \/ probe.score <= 20)
        /\ probe.score = 20 => out.confidence = 85
        /\ probe.score = 21 => out.confidence = 65
        /\ probe.score = 79 => out.confidence = 65
        /\ probe.score = 80 => out.confidence = 85

\* The confidence of the boundary score 20 has been derived.
C9_Witness == Derived /\ probe.score = 20 /\ out.confidence = 85

LowAmount(c) == ~Has(c, "amount") \/ c.amount <= 500

NoTrigger(text) == \A ph \in TriggerPhrases : ~Includes(ToLowerCase(text), ph)

Baseline ==
    /\ out.body.risk_score = 20
    /\ out.body.verdict = "Approve"
    /\ out.body.signals = <<>>

\* C10 as claimed: amount absent or <= 500, and summary, merchant and
\* user_context each free of trigger phrases, give 20, Approve, [].
C10_Original ==
    (/\ Scored
     /\ LowAmount(ProbeCase)
     /\ NoTrigger(ProbeCase.summary)
     /\ NoTrigger(OrEmpty(ProbeCase, "merchant"))
     /\ NoTrigger(OrEmpty(ProbeCase, "user_context"))) => Baseline

\* C10 amended: amount absent or <= 500, and the text scoreCase searches
\* (summary, merchant, user_context joined by single spaces) free of trigger
\* phrases, give 20, Approve, [].
C10_BaselineWhenTextClean ==
    (/\ Scored
     /\ LowAmount(ProbeCase)
     /\ NoTrigger(ProbeCase.summary \o <<" ">> \o OrEmpty(ProbeCase, "merchant")
                     \o <<" ">> \o OrEmpty(ProbeCase, "user_context"))) => Baseline

\* A case of amount exactly 500, with a merchant and a clean text, scored 20.
C10_Witness ==
    /\ Scored
    /\ Has(ProbeCase, "amount") /\ ProbeCase.amount = 500
    /\ Has(ProbeCase, "merchant") /\ ProbeCase.merchant = MerchantAcme
    /\ NoTrigger(CaseText(ProbeCase))
    /\ out.body.risk_score = 20

\* The position of a signal name in the order of the rules (0: no rule).
RuleIndex(name) ==
    IF \E i \in DOMAIN AllSignals : AllSignals[i] = name
    THEN CHOOSE i \in DOMAIN AllSignals : AllSignals[i] = name
    ELSE 0

\* C11: signals is a duplicate-free subsequence of [high_amount,
\* urgency_language, high_risk_payment, social_engineering_phrase]: its
\* names are rule names and stand in strictly increasing rule order,
\* wherever in the case the triggering content stands.
C11_SignalsInRuleOrder ==
    Scored =>
        /\ \A i \in DOMAIN out.body.signals : RuleIndex(out.body.signals[i]) >= 1
        /\ \A i, j \in DOMAIN out.body.signals :
               i < j => RuleIndex(out.body.signals[i]) < RuleIndex(out.body.signals[j])

\* The social-engineering phrase stands in the summary, before the urgency
\* word of user_context, and the signals list urgency first.
C11_Witness ==
    /\ Scored
    /\ ProbeCase.summary = SummaryNotAScam
    /\ Has(ProbeCase, "user_context") /\ ProbeCase.user_context = ContextUrgent
    /\ Has(ProbeCase, "amount") /\ ProbeCase.amount = 1200
    /\ out.body.signals
         = <<"high_amount", "urgency_language", "social_engineering_phrase">>

(***************************************************************************)
(* Properties of analytics (SpecAnalytics, SpecRate)                       *)
(***************************************************************************)
\* GET /analytics has answered.
Reported == Has(out, "body") /\ Has(out.body, "top_reasons")

StoredReasons == FlatReasons(Feedback(g))

Occurrences(r) == Cardinality({i \in DOMAIN StoredReasons : StoredReasons[i] = r})

FirstOccurrence(r) ==
    CHOOSE i \in DOMAIN StoredReasons :
        /\ StoredReasons[i] = r
        /\ \A j \in DOMAIN StoredReasons : StoredReasons[j] = r => i <= j

\* C12: top_reasons holds exactly one entry for every distinct reason string
\* of the stored records' reason_codes, its count is the number of
\* occurrences of that string in the whole store, and the entries are in
\* descending order of count.
C12_TopReasonsTally ==
    Reported =>
        LET top == out.body.top_reasons
        IN  /\ {top[i].reason : i \in DOMAIN top}
                  = {StoredReasons[i] : i \in DOMAIN StoredReasons}
            /\ \A i, j \in DOMAIN top : top[i].reason = top[j].reason => i = j
            /\ \A i \in DOMAIN top :
                   /\ Has(top[i], "count")
                   /\ top[i].count = Occurrences(top[i].reason)
            /\ \A i, j \in DOMAIN top : i < j => top[i].count >= top[j].count

\* C13: override_rate is the number of stored records whose action is
\* Override divided by the number of stored records, rounded to two decimal
\* places: the nearest hundredth, and when the quotient lies exactly between
\* two hundredths, the one that rounding half up or rounding half to even
\* gives.  So it lies in 0..1 (0..100 hundredths); total_feedback is the
\* number of stored records; and on an empty store the answer is exactly
\* {total_feedback: 0, override_rate: 0, top_reasons: []}.
C13_OverrideRate ==
    Reported =>
        LET total == Len(Feedback(g))
            overrides == Overrides(Feedback(g))
            rate == out.body.override_rate
            below == (100 * overrides) \div total
            halfEven == IF below % 2 = 0 THEN below ELSE below + 1
        IN  /\ out.status = 200
            /\ out.body.total_feedback = total
            /\ rate \in 0..100
            /\ total > 0 =>
                  /\ 2 * (rate * total - 100 * overrides) <= total
                  /\ 2 * (rate * total - 100 * overrides) >= -total
                  /\ 2 * ((100 * overrides) % total) = total =>
                        rate \in {below + 1, halfEven}
            /\ total = 0 =>
                  out.body = [total_feedback |-> 0, override_rate |-> 0,
                              top_reasons |-> <<>>]

\* C14: of two entries of top_reasons with equal counts, the one whose
\* reason occurs first in the store (record order, then position within
\* reason_codes) comes first, whatever the reason strings are.  Stated for
\* the answers in which every count is a number.
C14_TiesInFirstSeenOrder ==
    Reported =>
        LET top == out.body.top_reasons
        IN  (\A i \in DOMAIN top : Has(top[i], "count")) =>
                \A i, j \in DOMAIN top :
                    (i < j /\ top[i].count = top[j].count) =>
                        FirstOccurrence(top[i].reason) < FirstOccurrence(top[j].reason)

(***************************************************************************)
(* Properties of the request boundary (Spec, SpecScore)                    *)
(***************************************************************************)
Malformed(body) == body.kind # "object"

\* C15: a POST /score or POST /feedback whose body is malformed (not
\* parseable, or parseable but not an object, JSON null for one) is answered
\* 400 with "Missing required fields" or "Invalid feedback payload", and
\* nothing is thrown out of fetch.
C15_MalformedBodyAnswered400 ==
    [][\A req \in BagToSet(pending) :
           (Resumes(req) /\ Malformed(req.body)) =>
               /\ last'.resp.status = 400
               /\ last'.resp.body
                     = [error |-> IF last'.route = "score"
                                  THEN "Missing required fields"
                                  ELSE "Invalid feedback payload"]]_vars

\* POST /score has returned or thrown for the body  probe.
Handled == Has(out, "status")

\* body.case.k is there, whatever its value
Present(body, k) ==
    /\ body.kind \in {"object", "untyped"}
    /\ Has(body.val, "case")
    /\ Has(body.val["case"], k)

ScoreResultFields ==
    {"case_id", "risk_score", "verdict", "confidence", "rationale", "signals",
     "model", "backend", "timestamp"}

IsScoreResult(resp) ==
    /\ resp.status = 200
    /\ DOMAIN resp.body = ScoreResultFields
    /\ resp.body.risk_score \in ScoreFloor..ScoreCeiling
    /\ resp.body.verdict \in VerdictValues

MissingFields == Json([error |-> "Missing required fields"], 400)

\* C16: POST /score answers 400 {error: "Missing required fields"} and
\* nothing of a score whenever the case, its summary or its type is absent,
\* and 200 with a ScoreResult for every request that has both summary and
\* type: once validation has passed, scoring produces a result and never
\* fails.  Stated for the bodies that parse.
C16_ScoreValidation ==
    (Handled /\ probe.kind # "unparseable") =>
        IF Present(probe, "summary") /\ Present(probe, "type")
        THEN IsScoreResult(out)
        ELSE out = MissingFields

\* C17: two POST /score requests with the same case are answered with the
\* same risk_score, verdict and signals (and confidence), whatever feedback
\* or other requests the worker served before or between them, and with the
\* same case_id, the one supplied, when the case carries an id.  The two
\* answers are computed from the global object as it is when each request
\* resumes, at two readings of the clock and with two generated ids; for
\* the example case (CASE-1001: "Urgent wire transfer requested by new
\* vendor", amount 1200) both are the answer of the example, 85 / Reject /
\* high_amount, urgency_language, high_risk_payment.
C17_ScoringDeterministic ==
    Has(out, "second") =>
        /\ out.first.status = 200
        /\ out.second.status = 200
        /\ out.first.body.risk_score = out.second.body.risk_score
        /\ out.first.body.verdict = out.second.body.verdict
        /\ out.first.body.signals = out.second.body.signals
        /\ out.first.body.confidence = out.second.body.confidence
        /\ Has(ProbeCase, "id") =>
              /\ out.first.body.case_id = ProbeCase.id
              /\ out.second.body.case_id = ProbeCase.id
        /\ ProbeCase = Case1001 =>
              /\ out.second.body.risk_score = 85
              /\ out.second.body.verdict = "Reject"
              /\ out.second.body.signals
                    = <<"high_amount", "urgency_language", "high_risk_payment">>

\* A case with an id was scored twice within one reading of the clock, and
\* the process holds a review, stored at another reading, that overrides
\* this very case to another verdict than the one both answers give.
C17_Witness ==
    /\ Has(out, "second")
    /\ Has(ProbeCase, "id")
    /\ Len(Feedback(g)) = 1
    /\ out.first.body.timestamp = out.second.body.timestamp
    /\ Feedback(g)[1].received_at # out.first.body.timestamp
    /\ Feedback(g)[1].action = "Override"
    /\ Feedback(g)[1].case_id = out.second.body.case_id
    /\ Feedback(g)[1].final_verdict # out.second.body.verdict

(***************************************************************************)
(* Properties of the reviewer UI (SpecUI)                                  *)
(***************************************************************************)
\* C18: under every interleaving of case clicks, Score clicks, Submit
\* Review clicks and response arrivals, a score result that is held is the
\* result of the selected case (result.case_id = selected.id), and at most
\* one feedback request is sent per score result.
C18_ResultMatchesSelection ==
    /\ ui.result # NoResult => ui.result.case_id = ui.selected.id
    /\ ui.reviews <= 1

=============================================================================
